---- MODULE Spec2Model ----
(***************************************************************************)
(* A model of the PubMed paper fetcher: the affiliation classifier, the    *)
(* record parser (publication date, authors, corresponding-author          *)
(* inference), the batched fetch client, the CSV exporters and the         *)
(* command-line entry point.                                               *)
(*                                                                         *)
(* Python strings are TLA+ strings, read character by character with       *)
(* SubSeq.  An Optional[str] is <<>> (None) or <<s>>.  The result of       *)
(* Element.find is a record: NoElem (find returned None), EmptyElem (an    *)
(* element whose .text is None) or Elem(t) (an element with text t).       *)
(***************************************************************************)
EXTENDS Integers, Sequences, FiniteSets, TLC

VARIABLES
    pc,                 \* the position of the running specification
    affiliation,        \* argument of _is_non_academic_affiliation
    is_non_academic,    \* its return value, <<>> before the call
    article_element,    \* the PubmedArticle element being parsed
    publication_date,   \* outcome of _extract_publication_date, <<>> before
    authors,            \* <<list>> returned by _extract_authors, <<>> before
    xml_text,           \* argument of _parse_xml_response: the parsed response
    batch_papers,       \* <<list>> returned by _parse_xml_response, <<>> before
    variant,            \* the package in use: "pubmed-papers" or "pubmed_papers"
    papers,             \* the records get_papers returned / papers_to_csv is given
    csv_output,         \* <<text>> returned by papers_to_csv, <<>> before
    args_file,          \* args.file: <<>> (console) or <<path>>
    search_outcome,     \* how the search call ended, "pending" before it
    paper_ids,          \* the identifiers the search returned
    i,                  \* loop variable of fetch_paper_details
    all_papers,         \* all_papers of fetch_paper_details
    fetch_log,          \* the fetch requests issued so far, with their outcomes
    raised,             \* <<>> or <<exception>> raised inside main's try block
    stderr,             \* the messages main printed to sys.stderr
    output,             \* where the table went: "none", "file" or "console"
    exit_code           \* <<>> while running, <<n>> once main returned n

vars == <<pc, affiliation, is_non_academic, article_element, publication_date,
          authors, xml_text, batch_papers, variant, papers, csv_output,
          args_file, search_outcome, paper_ids, i, all_papers, fetch_log,
          raised, stderr, output, exit_code>>

classifyVars == <<affiliation, is_non_academic>>
articleVars == <<article_element, publication_date, authors>>
parseVars == <<xml_text, batch_papers>>
csvVars == <<variant, papers, csv_output>>
mainVars == <<args_file, search_outcome, paper_ids, i, all_papers, fetch_log,
              raised, stderr, output, exit_code>>

-----------------------------------------------------------------------------
(* Strings                                                                 *)

CharAt(s, k) == SubSeq(s, k, k)

UpperToLower ==
    ("A" :> "a") @@ ("B" :> "b") @@ ("C" :> "c") @@ ("D" :> "d") @@
    ("E" :> "e") @@ ("F" :> "f") @@ ("G" :> "g") @@ ("H" :> "h") @@
    ("I" :> "i") @@ ("J" :> "j") @@ ("K" :> "k") @@ ("L" :> "l") @@
    ("M" :> "m") @@ ("N" :> "n") @@ ("O" :> "o") @@ ("P" :> "p") @@
    ("Q" :> "q") @@ ("R" :> "r") @@ ("S" :> "s") @@ ("T" :> "t") @@
    ("U" :> "u") @@ ("V" :> "v") @@ ("W" :> "w") @@ ("X" :> "x") @@
    ("Y" :> "y") @@ ("Z" :> "z")

LowerChar(c) == IF c \in DOMAIN UpperToLower THEN UpperToLower[c] ELSE c

RECURSIVE lower(_)
lower(s) ==
    IF s = "" THEN ""
    ELSE LowerChar(CharAt(s, 1)) \o lower(SubSeq(s, 2, Len(s)))

\* literal lit occurs in s starting at position k
LiteralAt(s, lit, k) ==
    /\ k >= 1
    /\ k + Len(lit) - 1 <= Len(s)
    /\ SubSeq(s, k, k + Len(lit) - 1) = lit

-----------------------------------------------------------------------------
(* XML elements as the parser reads them                                   *)

NoElem == [present |-> FALSE, text |-> <<>>]      \* find(...) returned None
EmptyElem == [present |-> TRUE, text |-> <<>>]    \* element whose .text is None
Elem(t) == [present |-> TRUE, text |-> <<t>>]     \* element with text t

\* Python truthiness of a str-or-None value
Truthy(opt) == opt # <<>> /\ opt[1] # ""

\* "e is not None and e.text"
HasText(e) == e.present /\ Truthy(e.text)

NoPubDate == [present |-> FALSE, Year |-> NoElem, Month |-> NoElem, Day |-> NoElem]
NoAuthorList == [present |-> FALSE, Author |-> <<>>]

\* an article with an identifier and a title and nothing else
DefaultArticle ==
    [PMID |-> Elem("1"), ArticleTitle |-> Elem("T"), PubDate |-> NoPubDate,
     MedlineDate |-> NoElem, AuthorList |-> NoAuthorList,
     Correspondence |-> NoElem]

-----------------------------------------------------------------------------
(* The two pattern lists.  Every pattern is (?i)(?<!lookbehind)(a|b|...):  *)
(* a set of literal alternatives, case-insensitive, with an optional       *)
(* negative lookbehind (the empty string when the pattern has none).       *)

NON_ACADEMIC_PATTERNS ==
    << [lookbehind |-> "",
        alts |-> <<"pharma", "biotech", "therapeutics", "biosciences",
                   "laboratories", "inc.", "corp.", "ltd.", "llc", "gmbh",
                   "co.", "biopharma", "biopharm">>],
       [lookbehind |-> "medical ", alts |-> <<"company", "corporation">>],
       [lookbehind |-> "university ", alts |-> <<"labs">>] >>

ACADEMIC_PATTERNS ==
    << [lookbehind |-> "",
        alts |-> <<"university", "college", "institute", "school", "academy",
                   "medical center", "medical school", "hospital", "clinic",
                   "foundation">>],
       [lookbehind |-> "",
        alts |-> <<"department", "faculty", "division", "center for">>] >>

\* re.search(pattern, s): some alternative occurs somewhere in s, ignoring
\* case, at a position not directly preceded by the lookbehind text.
re_search(pattern, s) ==
    LET t == lower(s)
        lb == pattern.lookbehind
    IN \E k \in 1..Len(t) :
          /\ \E a \in DOMAIN pattern.alts : LiteralAt(t, pattern.alts[a], k)
          /\ \/ lb = ""
             \/ ~LiteralAt(t, lb, k - Len(lb))

-----------------------------------------------------------------------------
(* _is_non_academic_affiliation: the loop over NON_ACADEMIC_PATTERNS from  *)
(* pattern number k on, returning at the first industry match that is not  *)
(* overridden by an academic match.                                        *)

is_academic(s) ==
    \E a \in DOMAIN ACADEMIC_PATTERNS : re_search(ACADEMIC_PATTERNS[a], s)

RECURSIVE NonAcademicLoop(_, _)
NonAcademicLoop(s, k) ==
    IF k > Len(NON_ACADEMIC_PATTERNS) THEN FALSE
    ELSE IF re_search(NON_ACADEMIC_PATTERNS[k], s) /\ ~is_academic(s) THEN TRUE
    ELSE NonAcademicLoop(s, k + 1)

\* a classifier that forgets the academic override
Mutant_is_non_academic_affiliation(s) ==
    \E p \in DOMAIN NON_ACADEMIC_PATTERNS : re_search(NON_ACADEMIC_PATTERNS[p], s)

_is_non_academic_affiliation(s) == NonAcademicLoop(s, 1)

-----------------------------------------------------------------------------
(* _extract_publication_date                                               *)

Digits == {"0", "1", "2", "3", "4", "5", "6", "7", "8", "9"}
Letters == DOMAIN UpperToLower \cup {UpperToLower[c] : c \in DOMAIN UpperToLower}

\* str.isalpha(): non-empty and every character a letter
isalpha(s) == s # "" /\ \A k \in 1..Len(s) : CharAt(s, k) \in Letters

\* str.isdigit(): non-empty and every character a digit
isdigit(s) == s # "" /\ \A k \in 1..Len(s) : CharAt(s, k) \in Digits

\* str.zfill(2): zeros on the left up to width 2, after a leading sign
zfill2(s) ==
    IF Len(s) >= 2 THEN s
    ELSE IF s = "" THEN "00"
    ELSE IF s \in {"+", "-"} THEN s \o "0"
    ELSE "0" \o s

\* the abbreviated month names "%b" accepts, in calendar order
MonthAbbreviations ==
    <<"jan", "feb", "mar", "apr", "may", "jun",
      "jul", "aug", "sep", "oct", "nov", "dec">>

\* str(n) for a month number
MonthNumberStr == <<"1", "2", "3", "4", "5", "6", "7", "8", "9", "10", "11", "12">>

\* str(datetime.strptime(month[:3], "%b").month).zfill(2), or "" on ValueError.
\* strptime compares names ignoring case.
ConvertMonthName(month) ==
    LET abbr == lower(SubSeq(month, 1, IF Len(month) < 3 THEN Len(month) ELSE 3))
    IN IF \E m \in DOMAIN MonthAbbreviations : MonthAbbreviations[m] = abbr
       THEN zfill2(MonthNumberStr[CHOOSE m \in DOMAIN MonthAbbreviations :
                                     MonthAbbreviations[m] = abbr])
       ELSE ""

\* value of "e.text if e is not None else ''": <<>> is None
TextOrEmpty(e) == IF e.present THEN e.text ELSE <<"">>

Returned(v) == [raised |-> FALSE, value |-> v]
Raised(e) == [raised |-> TRUE, value |-> e]

\* the MedlineDate fallback and the final literal
MedlineFallback(article) ==
    IF HasText(article.MedlineDate) THEN Returned(article.MedlineDate.text[1])
    ELSE Returned("Unknown date")

_extract_publication_date(article) ==
    LET pd == article.PubDate
        year == TextOrEmpty(pd.Year)
        month == TextOrEmpty(pd.Month)
        day == TextOrEmpty(pd.Day)
    IN IF ~pd.present THEN MedlineFallback(article)
       ELSE IF month = <<>> THEN Raised("AttributeError")  \* None.isalpha()
       ELSE LET m == IF isalpha(month[1]) THEN ConvertMonthName(month[1])
                     ELSE month[1]
            IN IF Truthy(year) /\ m # "" /\ Truthy(day)
               THEN Returned(year[1] \o "-" \o zfill2(m) \o "-" \o zfill2(day[1]))
               ELSE IF Truthy(year) /\ m # ""
               THEN Returned(year[1] \o "-" \o zfill2(m))
               ELSE IF Truthy(year) THEN Returned(year[1])
               ELSE MedlineFallback(article)

-----------------------------------------------------------------------------
(* _extract_authors and its helpers                                        *)

\* the characters of the class [\w\.-]
EmailChars == Letters \cup Digits \cup {"_", ".", "-"}

\* the last position of the run of EmailChars that starts at position k
RECURSIVE RunEnd(_, _)
RunEnd(s, k) ==
    IF k < Len(s) /\ CharAt(s, k + 1) \in EmailChars THEN RunEnd(s, k + 1)
    ELSE k

\* [\w\.-]+@[\w\.-]+ matches at position k: a run, then "@", then a run
EmailAt(s, k) ==
    /\ CharAt(s, k) \in EmailChars
    /\ LET e == RunEnd(s, k)
       IN /\ e + 2 <= Len(s)
          /\ CharAt(s, e + 1) = "@"
          /\ CharAt(s, e + 2) \in EmailChars

\* re.search(r'[\w\.-]+@[\w\.-]+', s): None (<<>>) or the leftmost, longest match
email_search(s) ==
    IF \E k \in 1..Len(s) : EmailAt(s, k)
    THEN LET k == CHOOSE m \in 1..Len(s) :
                     EmailAt(s, m) /\ \A j \in 1..(m - 1) : ~EmailAt(s, j)
         IN <<SubSeq(s, k, RunEnd(s, RunEnd(s, k) + 2))>>
    ELSE <<>>

NoAffiliation == ""

_extract_affiliation(author_elem) ==
    IF HasText(author_elem.AffiliationInfo) THEN author_elem.AffiliationInfo.text[1]
    ELSE IF HasText(author_elem.Affiliation) THEN author_elem.Affiliation.text[1]
    ELSE NoAffiliation

\* attr is not None and attr.lower() == "yes"
IsYes(attr) == Truthy(attr) /\ lower(attr[1]) = "yes"

_extract_email_and_correspondence(author_elem) ==
    LET aff == _extract_affiliation(author_elem)
        email == IF aff # "" THEN email_search(aff) ELSE <<>>
    IN [email |-> email,
        is_corresponding |-> \/ email # <<>>
                             \/ IsYes(author_elem.EqualContrib)
                             \/ IsYes(author_elem.CorrespAuthor)]

RECURSIVE Reversed(_)
Reversed(seq) ==
    IF seq = <<>> THEN <<>> ELSE Append(Reversed(Tail(seq)), Head(seq))

\* " ".join(parts)
RECURSIVE JoinSpace(_)
JoinSpace(parts) ==
    IF parts = <<>> THEN ""
    ELSE IF Len(parts) = 1 THEN parts[1]
    ELSE parts[1] \o " " \o JoinSpace(Tail(parts))

\* name_parts as the loop body collects them
NameParts(author_elem) ==
    LET last == IF HasText(author_elem.LastName)
                THEN <<author_elem.LastName.text[1]>> ELSE <<>>
        fore == IF HasText(author_elem.ForeName)
                THEN <<author_elem.ForeName.text[1]>>
                ELSE IF HasText(author_elem.Initials)
                THEN <<author_elem.Initials.text[1]>> ELSE <<>>
        parts == last \o fore
    IN IF parts # <<>> THEN parts
       ELSE IF HasText(author_elem.CollectiveName)
       THEN <<author_elem.CollectiveName.text[1]>> ELSE <<>>

\* a name builder that joins the parts in the order they were collected
MutantAuthorName(author_elem) ==
    LET parts == NameParts(author_elem)
    IN IF parts # <<>> THEN JoinSpace(parts) ELSE "Unknown Author"

AuthorName(author_elem) ==
    LET parts == NameParts(author_elem)
    IN IF parts # <<>> THEN JoinSpace(Reversed(parts)) ELSE "Unknown Author"

\* the Author object the loop body appends for one Author element
AuthorOf(author_elem) ==
    LET ec == _extract_email_and_correspondence(author_elem)
    IN [name |-> AuthorName(author_elem),
        affiliation |-> _extract_affiliation(author_elem),
        email |-> ec.email,
        is_corresponding |-> ec.is_corresponding]

\* the list after the loop over author_list.findall("Author")
AuthorsLoop(article) ==
    [k \in 1..Len(article.AuthorList.Author) |-> AuthorOf(article.AuthorList.Author[k])]

\* an inference step that does not look whether an author is already marked
MutantInferCorresponding(article, list) ==
    IF list # <<>>
    THEN [list EXCEPT ![1].is_corresponding = TRUE]
    ELSE list

\* the corresponding-author inference applied to the list the loop built
InferCorresponding(article, list) ==
    IF (~\E k \in DOMAIN list : list[k].is_corresponding) /\ list # <<>>
    THEN IF HasText(article.Correspondence)
         THEN LET email_match == email_search(article.Correspondence.text[1])
              IN IF email_match # <<>>
                 THEN [list EXCEPT ![1].email = email_match,
                                   ![1].is_corresponding = TRUE]
                 ELSE list
         ELSE [list EXCEPT ![1].is_corresponding = TRUE]
    ELSE list

_extract_authors(article) ==
    IF ~article.AuthorList.present THEN <<>>
    ELSE InferCorresponding(article, AuthorsLoop(article))

-----------------------------------------------------------------------------
(* _parse_article and _parse_xml_response                                  *)

\* a filter that stops at the first non-academic author
RECURSIVE MutantNonAcademicFrom(_, _)
MutantNonAcademicFrom(list, k) ==
    IF k > Len(list) THEN <<>>
    ELSE IF list[k].affiliation # ""
            /\ _is_non_academic_affiliation(list[k].affiliation)
    THEN <<list[k]>>
    ELSE MutantNonAcademicFrom(list, k + 1)

\* the non-academic filter of _parse_article, over the list from position k
RECURSIVE NonAcademicFrom(_, _)
NonAcademicFrom(list, k) ==
    IF k > Len(list) THEN <<>>
    ELSE IF list[k].affiliation # ""
            /\ _is_non_academic_affiliation(list[k].affiliation)
    THEN <<list[k]>> \o NonAcademicFrom(list, k + 1)
    ELSE NonAcademicFrom(list, k + 1)

NoTitle == "No title available"

\* a parser that keeps every record, with or without a non-academic author
Mutant_parse_article(article) ==
    IF ~article.PMID.present THEN Returned(<<>>)
    ELSE LET pub_date == _extract_publication_date(article)
             list == _extract_authors(article)
         IN IF pub_date.raised THEN pub_date
            ELSE Returned(<<[pubmed_id |-> article.PMID.text,
                             title |-> IF article.ArticleTitle.present
                                       THEN article.ArticleTitle.text
                                       ELSE <<NoTitle>>,
                             publication_date |-> pub_date.value,
                             authors |-> list,
                             non_academic_authors |-> NonAcademicFrom(list, 1)]>>)

\* Returned(<<>>) is None, Returned(<<paper>>) a Paper, Raised(e) an exception
_parse_article(article) ==
    IF ~article.PMID.present THEN Returned(<<>>)
    ELSE LET pub_date == _extract_publication_date(article)
             list == _extract_authors(article)
             non_academic_authors == NonAcademicFrom(list, 1)
         IN IF pub_date.raised THEN pub_date
            ELSE IF non_academic_authors = <<>> THEN Returned(<<>>)
            ELSE Returned(<<[pubmed_id |-> article.PMID.text,
                             title |-> IF article.ArticleTitle.present
                                       THEN article.ArticleTitle.text
                                       ELSE <<NoTitle>>,
                             publication_date |-> pub_date.value,
                             authors |-> list,
                             non_academic_authors |-> non_academic_authors]>>)

\* a loop whose first failing record ends the batch
RECURSIVE MutantParseLoop(_, _, _)
MutantParseLoop(articles, k, collected) ==
    IF k > Len(articles) THEN collected
    ELSE LET paper == _parse_article(articles[k])
         IN IF paper.raised THEN collected
            ELSE MutantParseLoop(articles, k + 1, collected \o paper.value)

\* the loop over article_elements from position k; collected is the papers
\* list so far
RECURSIVE ParseLoop(_, _, _)
ParseLoop(articles, k, collected) ==
    IF k > Len(articles) THEN collected
    ELSE LET paper == _parse_article(articles[k])
         IN IF paper.raised THEN ParseLoop(articles, k + 1, collected)
            ELSE ParseLoop(articles, k + 1, collected \o paper.value)

\* a response ET.fromstring rejects (ParseError)
MalformedXml == [wellformed |-> FALSE, articles |-> <<>>]
\* a response that parses, with its PubmedArticle elements in document order
Xml(articles) == [wellformed |-> TRUE, articles |-> articles]

_parse_xml_response(xml) ==
    IF ~xml.wellformed THEN <<>>
    ELSE ParseLoop(xml.articles, 1, <<>>)

-----------------------------------------------------------------------------
(* Paper's derived properties and the two papers_to_csv                    *)

\* sep.join(parts)
RECURSIVE Join(_, _)
Join(parts, sep) ==
    IF parts = <<>> THEN ""
    ELSE IF Len(parts) = 1 THEN parts[1]
    ELSE parts[1] \o sep \o Join(Tail(parts), sep)

\* Paper.corresponding_author_email over the authors from position k:
\* the email of the first corresponding author that has one, else None
RECURSIVE CorrespondingEmailFrom(_, _)
CorrespondingEmailFrom(list, k) ==
    IF k > Len(list) THEN <<>>
    ELSE IF list[k].is_corresponding /\ Truthy(list[k].email) THEN list[k].email
    ELSE CorrespondingEmailFrom(list, k + 1)

corresponding_author_email(paper) == CorrespondingEmailFrom(paper.authors, 1)

\* set(author.affiliation for author in non_academic_authors)
CompanyAffiliationSet(paper) ==
    {paper.non_academic_authors[k].affiliation :
        k \in DOMAIN paper.non_academic_authors}

\* Paper.company_affiliations: list(set(...)) comes in any order
company_affiliations(paper) ==
    LET S == CompanyAffiliationSet(paper)
    IN {q \in [1..Cardinality(S) -> S] : \A x \in S : \E k \in DOMAIN q : q[k] = x}

\* the characters that make csv.writer quote a field
CsvSpecial == {",", "\"", "\r", "\n"}

RECURSIVE DoubleQuotes(_)
DoubleQuotes(s) ==
    IF s = "" THEN ""
    ELSE (IF CharAt(s, 1) = "\"" THEN "\"\"" ELSE CharAt(s, 1))
         \o DoubleQuotes(SubSeq(s, 2, Len(s)))

\* one field as csv.writer writes it; None (<<>>) is written as ""
CsvField(value) ==
    LET s == IF value = <<>> THEN "" ELSE value[1]
    IN IF \E k \in 1..Len(s) : CharAt(s, k) \in CsvSpecial
       THEN "\"" \o DoubleQuotes(s) \o "\""
       ELSE s

\* writer.writerow(fields): the fields, comma separated, then "\r\n"
CsvRow(fields) ==
    Join([k \in DOMAIN fields |-> CsvField(fields[k])], ",") \o "\r\n"

Names(list) == [k \in DOMAIN list |-> list[k].name]

CsvHeader ==
    <<<<"PubmedID">>, <<"Title">>, <<"Publication Date">>,
      <<"Non-academic Author(s)">>, <<"Company Affiliation(s)">>,
      <<"Corresponding Author Email">>>>

\* the list papers_to_csv hands to writerow for one paper, its company
\* affiliations taken in the given order
PaperRow(paper, affiliations) ==
    <<paper.pubmed_id, paper.title, <<paper.publication_date>>,
      <<Join(Names(paper.non_academic_authors), "; ")>>,
      <<Join(affiliations, "; ")>>,
      LET email == corresponding_author_email(paper)
      IN IF Truthy(email) THEN email ELSE <<"">> >>

RECURSIVE CsvRows(_, _, _)
CsvRows(list, orders, k) ==
    IF k > Len(list) THEN ""
    ELSE CsvRow(PaperRow(list[k], orders[k])) \o CsvRows(list, orders, k + 1)

\* an exporter that writes nothing at all for an empty list
Mutant_papers_to_csv(list, orders) ==
    IF list = <<>> THEN "" ELSE CsvRow(CsvHeader) \o CsvRows(list, orders, 1)

\* pubmed_papers.py papers_to_csv; orders[k] is the order in which paper k's
\* company affiliations come out of the set
papers_to_csv(list, orders) == CsvRow(CsvHeader) \o CsvRows(list, orders, 1)

DigitStr == <<"0", "1", "2", "3", "4", "5", "6", "7", "8", "9">>

\* str(n) for a natural number
RECURSIVE IntToStr(_)
IntToStr(n) ==
    IF n < 10 THEN DigitStr[n + 1]
    ELSE IntToStr(n \div 10) \o DigitStr[(n % 10) + 1]

StubFieldnames ==
    <<<<"id">>, <<"title">>, <<"authors">>, <<"journal">>, <<"year">>,
      <<"pharma_affiliations">>, <<"abstract">>, <<"doi">>>>

\* the row formatter.py writes for one paper dictionary
StubRow(paper) ==
    <<<<paper.id>>, <<paper.title>>, <<Join(paper.authors, "; ")>>,
      <<paper.journal>>, <<IntToStr(paper.year)>>,
      <<Join(paper.pharma_affiliations, "; ")>>, <<paper.abstract>>,
      <<paper.doi>>>>

\* the rows the loop writes for papers lo..hi, in order
RECURSIVE StubRows(_, _, _)
StubRows(list, lo, hi) ==
    IF lo > hi THEN ""
    ELSE IF lo = hi THEN CsvRow(StubRow(list[lo]))
    ELSE LET mid == (lo + hi) \div 2
         IN StubRows(list, lo, mid) \o StubRows(list, mid + 1, hi)

\* formatter.py papers_to_csv
stub_papers_to_csv(list) ==
    IF list = <<>> THEN ""
    ELSE CsvRow(StubFieldnames) \o StubRows(list, 1, Len(list))

-----------------------------------------------------------------------------
(* The fetch client of pubmed_papers.py and get_papers of fetcher.py       *)

batch_size == 50

Min(a, b) == IF a < b THEN a ELSE b

\* the Python slice seq[lo:hi], 0 <= lo
Slice(seq, lo, hi) == SubSeq(seq, lo + 1, Min(hi, Len(seq)))

\* a slice that loses the last identifier of every batch
MutantBatchIds(ids, offset) == Slice(ids, offset, offset + batch_size - 1)

\* batch_ids of the loop iteration at offset
BatchIds(ids, offset) == Slice(ids, offset, offset + batch_size)

\* what the fetch endpoint does with a request: the request fails
\* (RequestException, raise_for_status included) or a response text arrives
NetworkFailure == [failed |-> TRUE, xml |-> MalformedXml]
Response(xml) == [failed |-> FALSE, xml |-> xml]

\* a _fetch_batch that lets the network failure escape
Mutant_fetch_batch(reply) ==
    IF reply.failed THEN Raised("RequestException")
    ELSE Returned(_parse_xml_response(reply.xml))

_fetch_batch(reply) ==
    IF reply.failed THEN Returned(<<>>)
    ELSE Returned(_parse_xml_response(reply.xml))

\* the dictionary fetcher.py builds for an identifier
StubPaper(paper_id) ==
    [id |-> paper_id, title |-> "Sample Paper " \o paper_id,
     authors |-> <<"Author 1", "Author 2">>, journal |-> "Sample Journal",
     year |-> 2023, pharma_affiliations |-> <<"Pfizer", "Novartis">>,
     abstract |-> "This is a sample abstract for demonstration purposes.",
     doi |-> "10.1000/sample-" \o paper_id]

NoPapersMessage == "No papers found matching the criteria."

-----------------------------------------------------------------------------
(* The variables a specification does not use keep these values.           *)

IdleClassify == affiliation = "" /\ is_non_academic = <<>>

IdleArticle ==
    /\ article_element = DefaultArticle
    /\ publication_date = <<>>
    /\ authors = <<>>

IdleParse == xml_text = MalformedXml /\ batch_papers = <<>>

IdleCsv == variant = "pubmed-papers" /\ papers = <<>> /\ csv_output = <<>>

IdleMain ==
    /\ args_file = <<>>
    /\ search_outcome = "pending"
    /\ paper_ids = <<>>
    /\ i = 0
    /\ all_papers = <<>>
    /\ fetch_log = <<>>
    /\ raised = <<>>
    /\ stderr = <<>>
    /\ output = "none"
    /\ exit_code = <<>>

-----------------------------------------------------------------------------
(* Specification of the classifier: an affiliation built from at most      *)
(* MaxWords words is classified once.                                      *)

MaxWords == 3

AffiliationWords ==
    {"Acme ", "University ", "Medical ", "Company", "LABS", "Inc", "."}

RECURSIVE Phrases(_)
Phrases(n) ==
    IF n = 0 THEN {""}
    ELSE LET shorter == Phrases(n - 1)
         IN shorter \cup {p \o w : p \in shorter, w \in AffiliationWords}

Affiliations == Phrases(MaxWords)

InitClassify ==
    /\ pc = "classify"
    /\ affiliation \in Affiliations
    /\ is_non_academic = <<>>
    /\ IdleArticle
    /\ IdleParse
    /\ IdleCsv
    /\ IdleMain

Classify ==
    /\ pc = "classify"
    /\ is_non_academic' = <<_is_non_academic_affiliation(affiliation)>>
    /\ pc' = "classified"
    /\ UNCHANGED <<affiliation, articleVars, parseVars, csvVars, mainVars>>

NextClassify == Classify

SpecClassify == InitClassify /\ [][NextClassify]_vars

MatchesIndustry(s) ==
    \E p \in DOMAIN NON_ACADEMIC_PATTERNS : re_search(NON_ACADEMIC_PATTERNS[p], s)

MatchesAcademic(s) ==
    \E a \in DOMAIN ACADEMIC_PATTERNS : re_search(ACADEMIC_PATTERNS[a], s)

\* C1: the classifier returns true exactly when the affiliation matches at
\* least one industry pattern and no academic pattern; the empty string is
\* classified false.
C1_ClassifierIff ==
    pc = "classified" =>
        /\ is_non_academic[1] =
              (MatchesIndustry(affiliation) /\ ~MatchesAcademic(affiliation))
        /\ (affiliation = "" => is_non_academic[1] = FALSE)

\* an affiliation with both an industry cue and an academic cue was
\* classified (academic wins)
C1_Witness ==
    /\ pc = "classified"
    /\ affiliation = "University Company"
    /\ MatchesIndustry(affiliation)
    /\ MatchesAcademic(affiliation)
    /\ is_non_academic = <<FALSE>>

-----------------------------------------------------------------------------
(* Specification of the date extractor: one article whose date fields are  *)
(* drawn from the shapes PubMed XML takes, parsed once.                    *)

YearElems == {NoElem, EmptyElem, Elem("2023")}
MonthElems == {NoElem, EmptyElem, Elem("Jan"), Elem("december"), Elem("5"),
               Elem("11"), Elem("Spring"), Elem("Jan-Feb")}
DayElems == {NoElem, EmptyElem, Elem("5"), Elem("05")}
MedlineDateElems == {NoElem, EmptyElem, Elem("2023 Spring")}

PubDates ==
    {NoPubDate} \cup
    {[present |-> TRUE, Year |-> y, Month |-> m, Day |-> d] :
        y \in YearElems, m \in MonthElems, d \in DayElems}

InitDate ==
    /\ pc = "date"
    /\ \E pd \in PubDates, md \in MedlineDateElems :
          article_element =
              [DefaultArticle EXCEPT !.PubDate = pd, !.MedlineDate = md]
    /\ publication_date = <<>>
    /\ authors = <<>>
    /\ IdleClassify
    /\ IdleParse
    /\ IdleCsv
    /\ IdleMain

ExtractPublicationDate ==
    /\ pc = "date"
    /\ publication_date' = <<_extract_publication_date(article_element)>>
    /\ pc' = "dated"
    /\ UNCHANGED <<classifyVars, article_element, authors, parseVars, csvVars, mainVars>>

NextDate == ExtractPublicationDate

SpecDate == InitDate /\ [][NextDate]_vars

\* a date field as the claim reads it: its text, "" when there is none
FieldText(e) == IF HasText(e) THEN e.text[1] ELSE ""

\* the month the claim counts as present: a numeric month, or the number of
\* a recognised month name; anything else is no month
ClaimMonth(e) ==
    LET t == FieldText(e)
    IN IF isdigit(t) THEN zfill2(t)
       ELSE IF isalpha(t) THEN ConvertMonthName(t)
       ELSE ""

\* the date the claim prescribes for an article
ClaimDate(article) ==
    LET pd == article.PubDate
        y == FieldText(pd.Year)
        m == ClaimMonth(pd.Month)
        d == FieldText(pd.Day)
    IN IF y # "" /\ m # "" /\ d # "" THEN y \o "-" \o m \o "-" \o zfill2(d)
       ELSE IF y # "" /\ m # "" THEN y \o "-" \o m
       ELSE IF y # "" THEN y
       ELSE IF HasText(article.MedlineDate) THEN article.MedlineDate.text[1]
       ELSE "Unknown date"

\* C4: the date degrades by granularity: year-month-day, year-month, year,
\* then the free-text date field, then "Unknown date"; in particular
\* (2023, "Jan", "05") gives "2023-01-05".
C4_DateDegrades ==
    pc = "dated" =>
        /\ ~publication_date[1].raised
        /\ publication_date[1].value = ClaimDate(article_element)

\* the article has a PubDate with a year, so the date comes from the
\* structured fields
StructuredDate ==
    /\ article_element.PubDate.present
    /\ HasText(article_element.PubDate.Year)

\* rest is "", "-MM" or "-MM-DD" with MM and DD numeric
NumericTail(rest) ==
    \/ rest = ""
    \/ /\ Len(rest) \in {3, 6}
       /\ CharAt(rest, 1) = "-"
       /\ isdigit(SubSeq(rest, 2, 3))
       /\ Len(rest) = 6 => CharAt(rest, 4) = "-" /\ isdigit(SubSeq(rest, 5, 6))

\* C12: a month is used only when it is numeric: a month name is converted to
\* its two-digit number, a month value that is neither numeric nor a
\* recognised month name is left blank, and so every date produced from the
\* structured fields is YYYY-MM-DD, YYYY-MM or YYYY with a numeric month.
C12_NumericMonth ==
    (pc = "dated" /\ StructuredDate /\ ~publication_date[1].raised) =>
        LET year == FieldText(article_element.PubDate.Year)
            month == FieldText(article_element.PubDate.Month)
            date == publication_date[1].value
            rest == SubSeq(date, Len(year) + 1, Len(date))
        IN /\ SubSeq(date, 1, Len(year)) = year
           /\ NumericTail(rest)
           /\ (isalpha(month) /\ ConvertMonthName(month) # "")
                 => SubSeq(rest, 1, 3) = "-" \o ConvertMonthName(month)
           /\ (month # "" /\ ~isdigit(month) /\ ConvertMonthName(month) = "")
                 => date = year

-----------------------------------------------------------------------------
(* Specification of the author extractor: one article whose author list is *)
(* either a single author with any combination of name fields, or up to    *)
(* MaxAuthors authors with varied affiliations and attributes, under each  *)
(* shape of the document-level correspondence note.                        *)

MaxAuthors == 2

BareAuthor ==
    [LastName |-> NoElem, ForeName |-> NoElem, Initials |-> NoElem,
     CollectiveName |-> NoElem, AffiliationInfo |-> NoElem,
     Affiliation |-> NoElem, EqualContrib |-> <<>>, CorrespAuthor |-> <<>>]

NamedAuthors ==
    {[BareAuthor EXCEPT !.LastName = l, !.ForeName = f, !.Initials = n,
                        !.CollectiveName = c] :
        l \in {NoElem, EmptyElem, Elem("Smith")},
        f \in {NoElem, EmptyElem, Elem("Jane")},
        n \in {NoElem, EmptyElem, Elem("J")},
        c \in {NoElem, EmptyElem, Elem("Consortium X")}}

Smith == [BareAuthor EXCEPT !.LastName = Elem("Smith"), !.ForeName = Elem("Jane")]

AffiliatedAuthors ==
    {[Smith EXCEPT !.AffiliationInfo = Elem("Acme Inc.")],
     [Smith EXCEPT !.AffiliationInfo = Elem("Acme Labs, jane@acme.com")],
     [Smith EXCEPT !.AffiliationInfo = Elem("University X"),
                   !.CorrespAuthor = <<"Yes">>],
     [Smith EXCEPT !.EqualContrib = <<"yes">>],
     [Smith EXCEPT !.EqualContrib = <<"Y">>],
     [Smith EXCEPT !.AffiliationInfo = EmptyElem,
                   !.Affiliation = Elem("Biotech GmbH")]}

RECURSIVE SeqsUpTo(_, _)
SeqsUpTo(S, n) ==
    IF n = 0 THEN {<<>>}
    ELSE LET shorter == SeqsUpTo(S, n - 1)
         IN shorter \cup {Append(q, x) : q \in shorter, x \in S}

AuthorLists ==
    {[present |-> FALSE, Author |-> <<>>]} \cup
    {[present |-> TRUE, Author |-> <<a>>] : a \in NamedAuthors} \cup
    {[present |-> TRUE, Author |-> q] : q \in SeqsUpTo(AffiliatedAuthors, MaxAuthors)}

CorrespondenceElems ==
    {NoElem, EmptyElem, Elem("Contact: bob@x.org."), Elem("See the website")}

InitAuthors ==
    /\ pc = "authors"
    /\ \E al \in AuthorLists, ce \in CorrespondenceElems :
          article_element =
              [DefaultArticle EXCEPT !.AuthorList = al, !.Correspondence = ce]
    /\ publication_date = <<>>
    /\ authors = <<>>
    /\ IdleClassify
    /\ IdleParse
    /\ IdleCsv
    /\ IdleMain

ExtractAuthors ==
    /\ pc = "authors"
    /\ authors' = <<_extract_authors(article_element)>>
    /\ pc' = "extracted"
    /\ UNCHANGED <<classifyVars, article_element, publication_date, parseVars, csvVars, mainVars>>

NextAuthors == ExtractAuthors

SpecAuthors == InitAuthors /\ [][NextAuthors]_vars

\* the Author elements of the article, in source order
AuthorElems == article_element.AuthorList.Author

\* the given name, or the initials when there is no given name, else ""
GivenOrInitials(e) ==
    IF HasText(e.ForeName) THEN e.ForeName.text[1]
    ELSE IF HasText(e.Initials) THEN e.Initials.text[1]
    ELSE ""

\* C3 as stated: the family name comes first ("Smith Jane", "Smith J"), a
\* collective name stands alone when no other name field is there, and the
\* name is "Unknown Author" when no field is there.
C3_FamilyFirst ==
    pc = "extracted" =>
        \A k \in DOMAIN AuthorElems :
            LET e == AuthorElems[k]
                family == FieldText(e.LastName)
                given == GivenOrInitials(e)
                name == authors[1][k].name
            IN /\ (family # "" /\ given # "" => name = family \o " " \o given)
               /\ (family = "" /\ given = "" /\ HasText(e.CollectiveName)
                      => name = e.CollectiveName.text[1])
               /\ (family = "" /\ given = "" /\ ~HasText(e.CollectiveName)
                      => name = "Unknown Author")

\* C3 amended: the given name (or the initials) comes first and the family
\* name last ("Jane Smith", "J Smith"); a lone family or given name stands
\* alone; the collective name and "Unknown Author" are the fallbacks.
C3_GivenFirst ==
    pc = "extracted" =>
        /\ Len(authors[1]) = Len(AuthorElems)
        /\ \A k \in DOMAIN AuthorElems :
            LET e == AuthorElems[k]
                family == FieldText(e.LastName)
                given == GivenOrInitials(e)
                name == authors[1][k].name
            IN /\ (family # "" /\ given # "" => name = given \o " " \o family)
               /\ (family # "" /\ given = "" => name = family)
               /\ (family = "" /\ given # "" => name = given)
               /\ (family = "" /\ given = "" /\ HasText(e.CollectiveName)
                      => name = e.CollectiveName.text[1])
               /\ (family = "" /\ given = "" /\ ~HasText(e.CollectiveName)
                      => name = "Unknown Author")
               /\ (e.LastName = Elem("Smith") /\ e.ForeName = Elem("Jane")
                      => name = "Jane Smith")
               /\ (e.LastName = Elem("Smith") /\ ~HasText(e.ForeName)
                   /\ e.Initials = Elem("J") => name = "J Smith")

\* an author with a family name, no given name and initials was named
C3_Witness ==
    /\ pc = "extracted"
    /\ Len(AuthorElems) = 1
    /\ AuthorElems[1].LastName = Elem("Smith")
    /\ AuthorElems[1].ForeName = NoElem
    /\ AuthorElems[1].Initials = Elem("J")
    /\ authors[1][1].name = "J Smith"

\* the list as the per-author rules leave it, before the inference step
BeforeInference == AuthorsLoop(article_element)

\* every author but the first is as the per-author rules left it
OthersUnchanged ==
    \A k \in 2..Len(BeforeInference) : authors[1][k] = BeforeInference[k]

\* C10: with a non-empty author list and no author marked corresponding by
\* the per-author rules, a correspondence note holding an email gives the
\* first author that email and the flag; with no note (no element, or an
\* element without text) the first author gets the flag and no email; no
\* other author changes; and when some author was already marked, no author
\* changes at all.
C10_Inference ==
    (pc = "extracted" /\ AuthorElems # <<>>) =>
        LET before == BeforeInference
            after == authors[1]
            unmarked == \A k \in DOMAIN before : ~before[k].is_corresponding
            note == article_element.Correspondence
            note_email == IF HasText(note) THEN email_search(note.text[1]) ELSE <<>>
        IN /\ Len(after) = Len(before)
           /\ (unmarked /\ note_email # <<>>) =>
                 /\ after[1] = [before[1] EXCEPT !.email = note_email,
                                                 !.is_corresponding = TRUE]
                 /\ OthersUnchanged
           /\ (unmarked /\ ~HasText(note)) =>
                 /\ after[1] = [before[1] EXCEPT !.is_corresponding = TRUE]
                 /\ after[1].email = <<>>
                 /\ OthersUnchanged
           /\ ~unmarked => after = before

\* two authors, none marked by the per-author rules, and a note with an email:
\* the first author got the note's email and the flag, the second did not
C10_Witness ==
    /\ pc = "extracted"
    /\ Len(AuthorElems) = 2
    /\ \A k \in 1..2 : ~BeforeInference[k].is_corresponding
    /\ article_element.Correspondence = Elem("Contact: bob@x.org.")
    /\ authors[1][1].email = <<"bob@x.org.">>
    /\ authors[1][1].is_corresponding
    /\ ~authors[1][2].is_corresponding

\* C13: for every record with a non-empty author list, after
\* _extract_authors returns at least one author is marked corresponding,
\* whatever the per-author flags, the embedded emails and the correspondence
\* note are, a note that holds no email included.
C13_SomeCorresponding ==
    (pc = "extracted" /\ AuthorElems # <<>>) =>
        \E k \in DOMAIN authors[1] : authors[1][k].is_corresponding

-----------------------------------------------------------------------------
(* Specification of the response parser: one batch response, malformed or  *)
(* holding up to MaxArticles records drawn from the sample records, parsed *)
(* once.                                                                   *)

MaxArticles == 3

IndustryAuthor == [Smith EXCEPT !.AffiliationInfo = Elem("Acme Inc.")]
EmailAuthor ==
    [BareAuthor EXCEPT !.LastName = Elem("Doe"), !.Initials = Elem("J"),
                       !.AffiliationInfo = Elem("Acme Labs, jd@acme.com")]
AcademicAuthor ==
    [BareAuthor EXCEPT !.LastName = Elem("Roe"), !.ForeName = Elem("Ann"),
                       !.AffiliationInfo = Elem("University X"),
                       !.CorrespAuthor = <<"Yes">>]
\* an industry cue overridden by an academic cue
TechTransferAuthor ==
    [BareAuthor EXCEPT !.LastName = Elem("Poe"),
                       !.Affiliation = Elem("University Biotech Institute")]
UnaffiliatedAuthor == [BareAuthor EXCEPT !.CollectiveName = Elem("Consortium X")]

Authors(list) == [present |-> TRUE, Author |-> list]
Date(y, m, d) == [present |-> TRUE, Year |-> y, Month |-> m, Day |-> d]

IndustryArticle ==
    [DefaultArticle EXCEPT !.PMID = Elem("11"),
        !.PubDate = Date(Elem("2023"), Elem("Jan"), Elem("05")),
        !.AuthorList = Authors(<<IndustryAuthor>>)]
MixedArticle ==
    [DefaultArticle EXCEPT !.PMID = Elem("12"), !.ArticleTitle = NoElem,
        !.PubDate = Date(Elem("2023"), NoElem, NoElem),
        !.AuthorList = Authors(<<AcademicAuthor, EmailAuthor, UnaffiliatedAuthor>>)]
AcademicArticle ==
    [DefaultArticle EXCEPT !.PMID = Elem("13"),
        !.AuthorList = Authors(<<AcademicAuthor, TechTransferAuthor>>),
        !.Correspondence = Elem("Contact: bob@x.org.")]
NoAuthorsArticle ==
    [DefaultArticle EXCEPT !.PMID = Elem("14"), !.MedlineDate = Elem("2023 Spring")]
NoPmidArticle ==
    [DefaultArticle EXCEPT !.PMID = NoElem,
        !.AuthorList = Authors(<<IndustryAuthor>>)]
\* the empty Month element makes _extract_publication_date raise
RaisingArticle ==
    [DefaultArticle EXCEPT !.PMID = Elem("16"),
        !.PubDate = Date(Elem("2023"), EmptyElem, NoElem),
        !.AuthorList = Authors(<<EmailAuthor>>)]

\* two non-academic authors with academic and unaffiliated ones around them
TwoIndustryArticle ==
    [DefaultArticle EXCEPT !.PMID = Elem("17"),
        !.PubDate = Date(Elem("2024"), Elem("5"), NoElem),
        !.AuthorList = Authors(<<EmailAuthor, AcademicAuthor,
                                 UnaffiliatedAuthor, IndustryAuthor,
                                 TechTransferAuthor>>)]

SampleArticles ==
    {IndustryArticle, MixedArticle, AcademicArticle, NoAuthorsArticle,
     NoPmidArticle, RaisingArticle, TwoIndustryArticle}

XmlResponses ==
    {MalformedXml} \cup {Xml(q) : q \in SeqsUpTo(SampleArticles, MaxArticles)}

InitParse ==
    /\ pc = "parse"
    /\ xml_text \in XmlResponses
    /\ batch_papers = <<>>
    /\ IdleClassify
    /\ IdleArticle
    /\ IdleCsv
    /\ IdleMain

ParseXmlResponse ==
    /\ pc = "parse"
    /\ batch_papers' = <<_parse_xml_response(xml_text)>>
    /\ pc' = "parsed"
    /\ UNCHANGED <<classifyVars, articleVars, xml_text, csvVars, mainVars>>

NextParse == ParseXmlResponse

SpecParse == InitParse /\ [][NextParse]_vars

\* the record has an identifier and none of its fields makes the parser fail
\* (the only failing field is a Month element without text in a PubDate)
Parses(article) ==
    /\ article.PMID.present
    /\ ~(article.PubDate.present /\ article.PubDate.Month = EmptyElem)

\* some author of the record has an affiliation classified non-academic
HasNonAcademicAuthor(article) ==
    \E k \in DOMAIN article.AuthorList.Author :
        LET aff == _extract_affiliation(article.AuthorList.Author[k])
        IN aff # "" /\ MatchesIndustry(aff) /\ ~MatchesAcademic(aff)

\* the records of the sequence that parse and have a non-academic author, in
\* their original order
RECURSIVE Retained(_)
Retained(articles) ==
    IF articles = <<>> THEN <<>>
    ELSE IF Parses(Head(articles)) /\ HasNonAcademicAuthor(Head(articles))
    THEN <<Head(articles)>> \o Retained(Tail(articles))
    ELSE Retained(Tail(articles))

\* C7: a record that fails to parse is skipped without ending its batch: the
\* papers returned for a response are exactly its records that parse and
\* have a non-academic author, in their original relative order.
C7_SkipNeverAborts ==
    (pc = "parsed" /\ xml_text.wellformed) =>
        LET kept == Retained(xml_text.articles)
        IN /\ Len(batch_papers[1]) = Len(kept)
           /\ \A j \in DOMAIN kept :
                 /\ batch_papers[1][j].pubmed_id = kept[j].PMID.text
                 /\ <<batch_papers[1][j]>> = _parse_article(kept[j]).value

\* a record that raises came first, and the two records after it were still
\* returned, in their order
C7_Witness ==
    /\ pc = "parsed"
    /\ xml_text = Xml(<<RaisingArticle, MixedArticle, IndustryArticle>>)
    /\ Len(batch_papers[1]) = 2
    /\ batch_papers[1][1].pubmed_id = <<"12">>
    /\ batch_papers[1][2].pubmed_id = <<"11">>

\* the record of the response a paper was parsed from
ArticleOf(paper) ==
    CHOOSE a \in {xml_text.articles[k] : k \in DOMAIN xml_text.articles} :
        a.PMID = Elem(paper.pubmed_id[1])

\* the classifier, as the pattern lists state it, says non-academic
ClassifiedNonAcademic(author) ==
    /\ MatchesIndustry(author.affiliation)
    /\ ~MatchesAcademic(author.affiliation)

\* C11: in every Record _parse_article returns, authors lists all authors of
\* the record in source order, and non_academic_authors is exactly the
\* subsequence of authors, in that order, whose affiliation the classifier
\* calls non-academic; no author with an empty affiliation is in it.
C11_OrderedSubsequence ==
    pc = "parsed" =>
        \A j \in DOMAIN batch_papers[1] :
            LET paper == batch_papers[1][j]
                elems == ArticleOf(paper).AuthorList.Author
            IN /\ Len(paper.authors) = Len(elems)
               /\ \A k \in DOMAIN elems :
                     paper.authors[k].affiliation = _extract_affiliation(elems[k])
               /\ paper.non_academic_authors =
                     SelectSeq(paper.authors, ClassifiedNonAcademic)
               /\ \A k \in DOMAIN paper.non_academic_authors :
                     paper.non_academic_authors[k].affiliation # ""

\* a record of five authors was parsed: the first and the fourth are the
\* non-academic ones, in that order, and the unaffiliated third is not
C11_Witness ==
    /\ pc = "parsed"
    /\ xml_text = Xml(<<TwoIndustryArticle>>)
    /\ Len(batch_papers[1]) = 1
    /\ Len(batch_papers[1][1].authors) = 5
    /\ batch_papers[1][1].authors[3].affiliation = ""
    /\ Len(batch_papers[1][1].non_academic_authors) = 2
    /\ batch_papers[1][1].non_academic_authors[1] = batch_papers[1][1].authors[1]
    /\ batch_papers[1][1].non_academic_authors[2] = batch_papers[1][1].authors[4]

-----------------------------------------------------------------------------
(* Specification of the exporters: a list of up to MaxPapers records, of   *)
(* the Paper kind for pubmed-papers/pubmed_papers.py and of the dictionary *)
(* kind for pubmed_papers/formatter.py, exported once.                     *)

MaxPapers == 2

Titles == {Elem("T"), Elem("a,b"), Elem("say \"x\""), Elem("two\nlines"), EmptyElem}

CsvArticles ==
    {[IndustryArticle EXCEPT !.ArticleTitle = t] : t \in Titles} \cup
    {MixedArticle,
     [MixedArticle EXCEPT !.PMID = Elem("17"),
                          !.AuthorList = Authors(<<IndustryAuthor, EmailAuthor>>)]}

PaperSamples == {_parse_article(a).value[1] : a \in CsvArticles}

StubSamples ==
    {StubPaper("1"), StubPaper("2"),
     [StubPaper("3") EXCEPT !.title = "two\nlines"],
     [StubPaper("4") EXCEPT !.title = "a,b"]}

\* one order of the company affiliations for every paper of the list
AffiliationOrders(list) ==
    {o \in [DOMAIN list -> UNION {company_affiliations(list[k]) : k \in DOMAIN list}] :
        \A k \in DOMAIN list : o[k] \in company_affiliations(list[k])}

InitCsv ==
    /\ pc = "csv"
    /\ \/ variant = "pubmed-papers" /\ papers \in SeqsUpTo(PaperSamples, MaxPapers)
       \/ variant = "pubmed_papers" /\ papers \in SeqsUpTo(StubSamples, MaxPapers)
    /\ csv_output = <<>>
    /\ IdleClassify
    /\ IdleArticle
    /\ IdleParse
    /\ IdleMain

PapersToCsv ==
    /\ pc = "csv"
    /\ variant = "pubmed-papers"
    /\ \E orders \in AffiliationOrders(papers) :
          csv_output' = <<papers_to_csv(papers, orders)>>
    /\ pc' = "exported"
    /\ UNCHANGED <<classifyVars, articleVars, parseVars, variant, papers, mainVars>>

StubPapersToCsv ==
    /\ pc = "csv"
    /\ variant = "pubmed_papers"
    /\ csv_output' = <<stub_papers_to_csv(papers)>>
    /\ pc' = "exported"
    /\ UNCHANGED <<classifyVars, articleVars, parseVars, variant, papers, mainVars>>

NextCsv == PapersToCsv \/ StubPapersToCsv

SpecCsv == InitCsv /\ [][NextCsv]_vars

\* position k of s ends a line terminator: "\n", or a "\r" with no "\n" after
LineEndAt(s, k) ==
    \/ CharAt(s, k) = "\n"
    \/ CharAt(s, k) = "\r" /\ CharAt(s, k + 1) # "\n"

\* the lines of s from position p on, as str.splitlines cuts it at "\r\n",
\* "\n" and "\r"
RECURSIVE LinesFrom(_, _)
LinesFrom(s, p) ==
    IF p > Len(s) THEN <<>>
    ELSE IF ~\E k \in p..Len(s) : LineEndAt(s, k) THEN <<SubSeq(s, p, Len(s))>>
    ELSE LET e == CHOOSE k \in p..Len(s) :
                     LineEndAt(s, k) /\ \A j \in p..(k - 1) : ~LineEndAt(s, j)
             last == IF CharAt(s, e) = "\n" /\ e > p /\ CharAt(s, e - 1) = "\r"
                     THEN e - 2 ELSE e - 1
         IN <<SubSeq(s, p, last)>> \o LinesFrom(s, e + 1)

SplitLines(s) == LinesFrom(s, 1)

HasNewline(s) == \E k \in 1..Len(s) : CharAt(s, k) \in {"\r", "\n"}

\* the fields of record k, as strings
FieldsOf(k) ==
    IF variant = "pubmed-papers"
    THEN LET p == papers[k]
         IN {IF p.pubmed_id = <<>> THEN "" ELSE p.pubmed_id[1],
             IF p.title = <<>> THEN "" ELSE p.title[1], p.publication_date}
            \cup {p.non_academic_authors[j].name : j \in DOMAIN p.non_academic_authors}
            \cup CompanyAffiliationSet(p)
            \cup {p.authors[j].email[1] : j \in {m \in DOMAIN p.authors : p.authors[m].email # <<>>}}
    ELSE LET p == papers[k]
         IN {p.id, p.title, p.journal, p.abstract, p.doi}
            \cup {p.authors[j] : j \in DOMAIN p.authors}
            \cup {p.pharma_affiliations[j] : j \in DOMAIN p.pharma_affiliations}

\* no field of any record holds a newline
WellFormed == \A k \in DOMAIN papers : \A f \in FieldsOf(k) : ~HasNewline(f)

\* the identifier of record k as the table shows it
IdCell(k) ==
    IF variant = "pubmed-papers" THEN CsvField(papers[k].pubmed_id)
    ELSE CsvField(<<papers[k].id>>)

HeaderLine ==
    IF variant = "pubmed-papers"
    THEN "PubmedID,Title,Publication Date,Non-academic Author(s),Company Affiliation(s),Corresponding Author Email"
    ELSE "id,title,authors,journal,year,pharma_affiliations,abstract,doi"

\* N well-formed records give N+1 lines: the header, then a row per record
\* in input order
RowsFollowHeader ==
    WellFormed =>
        LET lines == SplitLines(csv_output[1])
        IN /\ Len(lines) = Len(papers) + 1
           /\ lines[1] = HeaderLine
           /\ \A k \in DOMAIN papers :
                 LiteralAt(lines[k + 1], IdCell(k) \o ",", 1)

\* C8 as stated: zero records give the header row alone, and N well-formed
\* records give N+1 lines, the header and one row per record in input order
\* (for either papers_to_csv).
C8_HeaderAlways ==
    pc = "exported" =>
        /\ (papers = <<>> => csv_output[1] = HeaderLine \o "\r\n")
        /\ RowsFollowHeader

\* C8 amended: papers_to_csv of pubmed-papers/pubmed_papers.py gives the
\* header row alone for zero records and papers_to_csv of
\* pubmed_papers/formatter.py gives the empty text; for N >= 1 well-formed
\* records both give N+1 lines, the header and one row per record in input
\* order.
C8_HeaderUnlessStubEmpty ==
    pc = "exported" =>
        /\ (papers = <<>> /\ variant = "pubmed-papers"
               => csv_output[1] = HeaderLine \o "\r\n")
        /\ (papers = <<>> /\ variant = "pubmed_papers" => csv_output[1] = "")
        /\ (papers # <<>> \/ variant = "pubmed-papers" => RowsFollowHeader)

\* two well-formed records, one of them with a quoted title, were exported
\* as three lines
C8_Witness ==
    /\ pc = "exported"
    /\ variant = "pubmed-papers"
    /\ Len(papers) = 2
    /\ papers[1].title = <<"a,b">>
    /\ WellFormed
    /\ Len(SplitLines(csv_output[1])) = 3

-----------------------------------------------------------------------------
(* Specification of a run of main: the search returns up to MaxIds         *)
(* identifiers (or fails), pubmed-papers/pubmed_papers.py fetches them in  *)
(* batches, each answered by a network failure or by one of the sample     *)
(* responses, while pubmed_papers/fetcher.py fetches them in one request;  *)
(* main then exports the records and returns its exit code.                *)

MaxIds == 120

\* the identifier list of a search with n hits
Ids(n) == [k \in 1..n |-> IntToStr(k)]

FetchXml ==
    {MalformedXml, Xml(<<>>), Xml(<<MixedArticle>>),
     Xml(<<AcademicArticle, IndustryArticle, NoPmidArticle, RaisingArticle,
           NoAuthorsArticle, MixedArticle>>)}

FetchReplies == {NetworkFailure} \cup {Response(x) : x \in FetchXml}

\* _fetch_batch on every reply, and _parse_article on every sample record,
\* computed once
BatchResult == [r \in FetchReplies |-> _fetch_batch(r)]
ArticleResult == [a \in SampleArticles |-> _parse_article(a)]

\* what _parse_article returned for each record of a reply
ParsedOf(reply) ==
    IF reply.failed THEN <<>>
    ELSE [j \in DOMAIN reply.xml.articles |-> ArticleResult[reply.xml.articles[j]]]

InitMain ==
    /\ pc = "search"
    /\ variant \in {"pubmed-papers", "pubmed_papers"}
    /\ args_file \in {<<>>, <<"out.csv">>}
    /\ papers = <<>>
    /\ csv_output = <<>>
    /\ search_outcome = "pending"
    /\ paper_ids = <<>>
    /\ i = 0
    /\ all_papers = <<>>
    /\ fetch_log = <<>>
    /\ raised = <<>>
    /\ stderr = <<>>
    /\ output = "none"
    /\ exit_code = <<>>
    /\ IdleClassify
    /\ IdleArticle
    /\ IdleParse

idleVars == <<classifyVars, articleVars, parseVars, variant, args_file>>

\* search_papers: the identifier list, or [] on a request error or on a
\* response without esearchresult/idlist
SearchPapers ==
    /\ pc = "search"
    /\ variant = "pubmed-papers"
    /\ \/ \E n \in 0..MaxIds : search_outcome' = "ids" /\ paper_ids' = Ids(n)
       \/ search_outcome' = "bad_shape" /\ paper_ids' = <<>>
       \/ search_outcome' = "request_error" /\ paper_ids' = <<>>
    /\ pc' = "fetch"
    /\ UNCHANGED <<idleVars, papers, csv_output, i, all_papers, fetch_log,
                   raised, stderr, output, exit_code>>

\* fetch_paper_details with no identifiers: return [], and get_papers returns
FetchNothing ==
    /\ pc = "fetch"
    /\ paper_ids = <<>>
    /\ papers' = <<>>
    /\ pc' = "fetched"
    /\ UNCHANGED <<idleVars, csv_output, search_outcome, paper_ids, i,
                   all_papers, fetch_log, raised, stderr, output, exit_code>>

\* the body of the loop of fetch_paper_details: batch_papers =
\* self._fetch_batch(batch_ids), all_papers.extend(batch_papers); an exception
\* of _fetch_batch leaves the loop and get_papers
LoopBody(reply, batch_ids, result, parsed) ==
    IF result.raised
    THEN /\ raised' = <<result.value>>
         /\ pc' = "except"
         /\ fetch_log' = Append(fetch_log,
               [ids |-> batch_ids, reply |-> reply, parsed |-> parsed,
                papers |-> <<>>])
         /\ UNCHANGED <<i, all_papers>>
    ELSE /\ all_papers' = all_papers \o result.value
         /\ i' = i + batch_size
         /\ fetch_log' = Append(fetch_log,
               [ids |-> batch_ids, reply |-> reply, parsed |-> parsed,
                papers |-> result.value])
         /\ UNCHANGED <<raised, pc>>

\* one iteration of the loop of fetch_paper_details
FetchBatch ==
    /\ pc = "fetch"
    /\ paper_ids # <<>>
    /\ i < Len(paper_ids)
    /\ \E reply \in FetchReplies :
          LoopBody(reply, BatchIds(paper_ids, i), BatchResult[reply],
                   ParsedOf(reply))
    /\ UNCHANGED <<idleVars, papers, csv_output, search_outcome, paper_ids,
                   stderr, output, exit_code>>

\* the loop is over: fetch_paper_details returns all_papers, get_papers returns
FetchReturn ==
    /\ pc = "fetch"
    /\ paper_ids # <<>>
    /\ i >= Len(paper_ids)
    /\ papers' = all_papers
    /\ pc' = "fetched"
    /\ UNCHANGED <<idleVars, csv_output, search_outcome, paper_ids, i,
                   all_papers, fetch_log, raised, stderr, output, exit_code>>

\* fetcher.py get_papers up to "if not paper_ids: return []": urlopen raises,
\* or the identifier list arrives
StubSearch ==
    /\ pc = "search"
    /\ variant = "pubmed_papers"
    /\ \/ /\ search_outcome' = "raised"
          /\ raised' = <<"URLError">>
          /\ pc' = "except"
          /\ UNCHANGED <<paper_ids, papers>>
       \/ \E n \in 0..MaxIds :
             /\ search_outcome' = "ids"
             /\ paper_ids' = Ids(n)
             /\ papers' = <<>>
             /\ pc' = IF n = 0 THEN "fetched" ELSE "stub_fetch"
             /\ UNCHANGED raised
    /\ UNCHANGED <<idleVars, csv_output, i, all_papers, fetch_log, stderr,
                   output, exit_code>>

\* fetcher.py get_papers from the efetch request on: urlopen raises, or the
\* placeholder records are built, one per identifier
StubFetch ==
    /\ pc = "stub_fetch"
    /\ \/ /\ raised' = <<"URLError">>
          /\ pc' = "except"
          /\ UNCHANGED papers
       \/ /\ papers' = [k \in DOMAIN paper_ids |-> StubPaper(paper_ids[k])]
          /\ pc' = "fetched"
          /\ UNCHANGED raised
    /\ fetch_log' = Append(fetch_log,
          [ids |-> paper_ids, reply |-> NetworkFailure, parsed |-> <<>>,
           papers |-> <<>>])
    /\ UNCHANGED <<idleVars, csv_output, search_outcome, paper_ids, i,
                   all_papers, stderr, output, exit_code>>

\* a main that reports success when nothing was found
MutantMainNoPapers ==
    /\ pc = "fetched"
    /\ papers = <<>>
    /\ stderr' = Append(stderr, NoPapersMessage)
    /\ exit_code' = <<0>>
    /\ pc' = "exit"
    /\ UNCHANGED <<idleVars, papers, csv_output, search_outcome, paper_ids, i,
                   all_papers, fetch_log, raised, output>>

\* main: "if not papers": the message on stderr and return 1
MainNoPapers ==
    /\ pc = "fetched"
    /\ papers = <<>>
    /\ stderr' = Append(stderr, NoPapersMessage)
    /\ exit_code' = <<1>>
    /\ pc' = "exit"
    /\ UNCHANGED <<idleVars, papers, csv_output, search_outcome, paper_ids, i,
                   all_papers, fetch_log, raised, output>>

\* main: csv_output = papers_to_csv(papers)
MainToCsv ==
    /\ pc = "fetched"
    /\ papers # <<>>
    /\ \/ /\ variant = "pubmed-papers"
          /\ \E orders \in AffiliationOrders(papers) :
                csv_output' = <<papers_to_csv(papers, orders)>>
       \/ /\ variant = "pubmed_papers"
          /\ csv_output' = <<stub_papers_to_csv(papers)>>
    /\ pc' = "output"
    /\ UNCHANGED <<idleVars, papers, search_outcome, paper_ids, i, all_papers,
                   fetch_log, raised, stderr, output, exit_code>>

\* main: the table is written to args.file (open or write may raise OSError)
\* or printed, and main returns 0
MainOutput ==
    /\ pc = "output"
    /\ \/ /\ args_file # <<>>
          /\ raised' = <<"OSError">>
          /\ pc' = "except"
          /\ UNCHANGED <<output, exit_code>>
       \/ /\ output' = IF args_file # <<>> THEN "file" ELSE "console"
          /\ exit_code' = <<0>>
          /\ pc' = "exit"
          /\ UNCHANGED raised
    /\ UNCHANGED <<idleVars, papers, csv_output, search_outcome, paper_ids, i,
                   all_papers, fetch_log, stderr>>

\* main: "except Exception": the error on stderr and return 1
MainExcept ==
    /\ pc = "except"
    /\ stderr' = Append(stderr, "Error: " \o raised[1])
    /\ exit_code' = <<1>>
    /\ pc' = "exit"
    /\ UNCHANGED <<idleVars, papers, csv_output, search_outcome, paper_ids, i,
                   all_papers, fetch_log, raised, output>>

NextMain ==
    \/ SearchPapers
    \/ FetchNothing
    \/ FetchBatch
    \/ FetchReturn
    \/ StubSearch
    \/ StubFetch
    \/ MainNoPapers
    \/ MainToCsv
    \/ MainOutput
    \/ MainExcept

SpecMain == InitMain /\ [][NextMain]_vars

\* the fetch client (pubmed-papers/pubmed_papers.py) is the one running
FullVariant == variant = "pubmed-papers"

\* fetch_paper_details has returned
FetchDone == pc \notin {"search", "fetch"}

\* the batch results logged so far, concatenated in batch order
RECURSIVE LoggedPapers(_)
LoggedPapers(log) ==
    IF log = <<>> THEN <<>>
    ELSE LoggedPapers(SubSeq(log, 1, Len(log) - 1)) \o log[Len(log)].papers

NonAcademicRecord == [a \in SampleArticles |-> HasNonAcademicAuthor(a)]

NoEmptyRecord(list) ==
    \A k \in DOMAIN list : list[k].non_academic_authors # <<>>

\* C2: _parse_article never returns a Record whose non_academic_authors is
\* empty: for a record without a non-academic author it returns None (or
\* raises), and so no such Record is in a batch result, in all_papers, in the
\* list fetch_paper_details / get_papers returns, or in what papers_to_csv
\* receives.
C2_NoEmptyRecord ==
    FullVariant =>
        /\ \A k \in DOMAIN fetch_log :
              /\ NoEmptyRecord(fetch_log[k].papers)
              /\ \A j \in DOMAIN fetch_log[k].parsed :
                    LET outcome == fetch_log[k].parsed[j]
                        article == fetch_log[k].reply.xml.articles[j]
                    IN ~outcome.raised =>
                          /\ NoEmptyRecord(outcome.value)
                          /\ ~NonAcademicRecord[article] => outcome.value = <<>>
        /\ NoEmptyRecord(all_papers)
        /\ NoEmptyRecord(papers)

\* a response with records that have no non-academic author (13, 14) among
\* records that have one (11, 12) was parsed, and the run exported the two
C2_Witness ==
    /\ FullVariant
    /\ pc = "exit"
    /\ exit_code = <<0>>
    /\ Len(fetch_log) = 1
    /\ Len(fetch_log[1].parsed) = 6
    /\ Len(papers) = 2
    /\ papers[1].pubmed_id = <<"11">>
    /\ papers[2].pubmed_id = <<"12">>

\* the identifiers of batch k of an identifier list, 50 to a batch
ExpectedBatch(ids, k) == SubSeq(ids, 50 * (k - 1) + 1, Min(50 * k, Len(ids)))

\* ceil(n / 50)
ExpectedBatches(n) == (n + 49) \div 50

\* C5: fetch_paper_details issues ceil(n/50) batch fetches for n identifiers,
\* in input order, each of 50 consecutive identifiers but the last, which has
\* the remainder; what it returns is the batch results concatenated in batch
\* order; for n = 0 it issues no fetch and returns the empty list.
C5_Batches ==
    FullVariant =>
        /\ \A k \in DOMAIN fetch_log :
              /\ fetch_log[k].ids = ExpectedBatch(paper_ids, k)
              /\ Len(fetch_log[k].ids) =
                    IF k < ExpectedBatches(Len(paper_ids)) THEN 50
                    ELSE Len(paper_ids) - 50 * (k - 1)
        /\ Len(fetch_log) <= ExpectedBatches(Len(paper_ids))
        /\ all_papers = LoggedPapers(fetch_log)
        /\ FetchDone =>
              /\ Len(fetch_log) = ExpectedBatches(Len(paper_ids))
              /\ papers = LoggedPapers(fetch_log)
              /\ paper_ids = <<>> => fetch_log = <<>> /\ papers = <<>>

\* 120 identifiers were fetched as batches of 50, 50 and 20, and the first and
\* the last batch both contributed records
C5_Witness ==
    /\ FullVariant
    /\ pc = "fetched"
    /\ Len(paper_ids) = 120
    /\ Len(fetch_log) = 3
    /\ Len(fetch_log[1].ids) = 50
    /\ Len(fetch_log[2].ids) = 50
    /\ Len(fetch_log[3].ids) = 20
    /\ fetch_log[3].ids[20] = "120"
    /\ Len(fetch_log[1].papers) = 2
    /\ fetch_log[2].papers = <<>>
    /\ Len(fetch_log[3].papers) = 1
    /\ Len(papers) = 3

ResponsePapers == [x \in FetchXml |-> _parse_xml_response(x)]

\* the results of the logged batches that did not fail, in batch order
RECURSIVE SurvivingPapers(_)
SurvivingPapers(log) ==
    IF log = <<>> THEN <<>>
    ELSE LET last == log[Len(log)]
         IN SurvivingPapers(SubSeq(log, 1, Len(log) - 1))
               \o (IF last.reply.failed THEN <<>>
                   ELSE ResponsePapers[last.reply.xml])

\* C6: a network failure on a batch gives the empty list for that batch and
\* nothing escapes fetch_paper_details: the remaining batches are fetched, and
\* the result is the concatenation, in batch order, of the results of the
\* batches that did not fail.
C6_FailureIsEmptyBatch ==
    FullVariant =>
        /\ \A k \in DOMAIN fetch_log :
              fetch_log[k].reply.failed => fetch_log[k].papers = <<>>
        /\ pc = "fetch" => raised = <<>>
        /\ raised # <<>> => raised = <<"OSError">> /\ csv_output # <<>>
        /\ all_papers = SurvivingPapers(fetch_log)
        /\ FetchDone =>
              /\ Len(fetch_log) = ExpectedBatches(Len(paper_ids))
              /\ papers = SurvivingPapers(fetch_log)

\* the first of three batches failed, and the two after it were fetched and
\* make up the result
C6_Witness ==
    /\ FullVariant
    /\ pc = "fetched"
    /\ Len(fetch_log) = 3
    /\ fetch_log[1].reply.failed
    /\ ~fetch_log[2].reply.failed
    /\ ~fetch_log[3].reply.failed
    /\ Len(fetch_log[2].papers) = 1
    /\ Len(fetch_log[3].papers) = 2
    /\ papers = fetch_log[2].papers \o fetch_log[3].papers

\* the search came back with no identifiers
ZeroIdentifiers ==
    /\ search_outcome \in {"ids", "bad_shape", "request_error"}
    /\ paper_ids = <<>>

\* C9: with zero identifiers get_papers returns no records and no fetch is
\* issued, and main ends with the message on stderr and exit code 1, no
\* exception raised; main returns 0 only with at least one record and the
\* output written; an exception raised inside the run makes main return 1.
C9_ExitCodes ==
    /\ ZeroIdentifiers =>
          /\ fetch_log = <<>>
          /\ papers = <<>>
          /\ raised = <<>>
          /\ pc \notin {"except", "output", "stub_fetch"}
          /\ pc = "exit" =>
                /\ exit_code = <<1>>
                /\ stderr = <<NoPapersMessage>>
                /\ output = "none"
    /\ pc = "exit" <=> exit_code # <<>>
    /\ pc = "exit" =>
          /\ exit_code \in {<<0>>, <<1>>}
          /\ exit_code = <<0>> =>
                /\ papers # <<>>
                /\ csv_output # <<>>
                /\ output = (IF args_file # <<>> THEN "file" ELSE "console")
                /\ raised = <<>>
          /\ raised # <<>> =>
                /\ exit_code = <<1>>
                /\ stderr = <<"Error: " \o raised[1]>>
                /\ output = "none"

\* a search with an empty identifier list ended in exit code 1 with the
\* message, under the placeholder fetcher as well
C9_Witness ==
    /\ ~FullVariant
    /\ search_outcome = "ids"
    /\ paper_ids = <<>>
    /\ pc = "exit"
    /\ exit_code = <<1>>
    /\ stderr = <<NoPapersMessage>>

====
